---- MODULE Spec2Model ----
(***************************************************************************)
(* Model of caad.spark_utils.TemporalWindow and caad.spark_queries.        *)
(*                                                                         *)
(* The library is a set of stateless, synchronous builders.  One call is   *)
(* one action: the action draws the call's arguments, runs the whole       *)
(* function and records what it returned or raised, together with the log  *)
(* of the collaborator calls it made on the way (in program order).        *)
(***************************************************************************)
EXTENDS Integers, Sequences, FiniteSets

VARIABLES
    pc,      \* "idle" before the call, "returned" after it
    op,      \* the function that was called
    args,    \* the arguments the caller passed (record)
    result   \* what the call produced: a value or a raised exception

vars == <<pc, op, args, result>>

(***************************************************************************)
(* Bounds of the model.                                                    *)
(***************************************************************************)
MaxLen == 7
MaxOffset == 2

Lengths == (-1)..MaxLen
Offsets == (-1)..MaxOffset

\* Unit strings a caller may pass: the four keys of `resolution` and two others.
Units == {"minutes", "hours", "days", "weeks", "fortnights", "seconds"}

\* Aggregation names a caller may pass.
Strategies == {"mean", "last", "first", "median", "latest", "nonsense"}

(***************************************************************************)
(* Exceptions.  Both raises of convert_window_length_to_seconds are        *)
(* ValueError; they differ by message.                                     *)
(***************************************************************************)
MsgNegative == "Window size must not be negative."
MsgUnit == "Unit of time must be one of: dict_keys(['days', 'hours', 'weeks', 'minutes'])"
MsgStrategy == "Invalid aggregation strategy; may only be one of: dict_keys(['mean', 'last', 'first', 'median'])."
MsgUnexpectedKw == "got an unexpected keyword argument"
MsgMissingArg == "missing required positional argument"

Raise(exc, msg, calls) == [ok |-> FALSE, exc |-> exc, msg |-> msg, calls |-> calls]

(***************************************************************************)
(* spark_utils.TemporalWindow                                              *)
(***************************************************************************)
resolution == [days |-> 86400, hours |-> 3600, weeks |-> 604800, minutes |-> 60]

\* pyspark's Window.currentRow
currentRow == 0

\* Variant: the unit is looked up before the sign of the length is tested.
convert_unit_checked_first(window_length, unit_of_time) ==
    IF unit_of_time \notin DOMAIN resolution
    THEN Raise("ValueError", MsgUnit, <<>>)
    ELSE IF window_length < 0
    THEN Raise("ValueError", MsgNegative, <<>>)
    ELSE [ok |-> TRUE, value |-> resolution[unit_of_time] * window_length]

\* Variant: the table's entries for days and hours are exchanged.
convert_days_hours_swapped(window_length, unit_of_time) ==
    LET table == [days |-> 3600, hours |-> 86400, weeks |-> 604800, minutes |-> 60]
    IN  IF window_length < 0
        THEN Raise("ValueError", MsgNegative, <<>>)
        ELSE IF unit_of_time \notin DOMAIN table
        THEN Raise("ValueError", MsgUnit, <<>>)
        ELSE [ok |-> TRUE, value |-> table[unit_of_time] * window_length]

\* convert_window_length_to_seconds: the value, or the exception raised.
convert_window_length_to_seconds(window_length, unit_of_time) ==
    IF window_length < 0
    THEN Raise("ValueError", MsgNegative, <<>>)
    ELSE IF unit_of_time \notin DOMAIN resolution    \* resolution.get(...) is None
    THEN Raise("ValueError", MsgUnit, <<>>)
    ELSE [ok |-> TRUE, value |-> resolution[unit_of_time] * window_length]

\* Window.partitionBy(partition_col).orderBy(order_col).rangeBetween(start, end)
WindowSpec(partition_col, order_col, start, end) ==
    [partitionBy |-> partition_col, orderBy |-> order_col,
     start |-> start, end |-> end]

ConvCall == "convert_window_length_to_seconds"
BuildCalls == <<"Window.partitionBy", "orderBy", "rangeBetween">>

\* Variant: excluding the current row does not move the end bound.
create_lookback_window_end_not_moved(window_length, unit_of_time, order_col, partition_col, include_current, offset) ==
    LET lookback_window_length ==
            convert_window_length_to_seconds(window_length, unit_of_time)
        rescaled_offset ==
            convert_window_length_to_seconds(offset, unit_of_time)
    IN  IF ~lookback_window_length.ok
        THEN Raise(lookback_window_length.exc, lookback_window_length.msg,
                   <<ConvCall>>)
        ELSE IF ~rescaled_offset.ok
        THEN Raise(rescaled_offset.exc, rescaled_offset.msg,
                   <<ConvCall, ConvCall>>)
        ELSE [ok |-> TRUE,
              window |-> WindowSpec(
                  partition_col, order_col,
                  -(lookback_window_length.value + rescaled_offset.value),
                  currentRow - rescaled_offset.value),
              calls |-> <<ConvCall, ConvCall>> \o BuildCalls]

\* Variant: the offset is added to the end bound instead of subtracted.
create_lookback_window_offset_sign(window_length, unit_of_time, order_col, partition_col, include_current, offset) ==
    LET lookback_window_length ==
            convert_window_length_to_seconds(window_length, unit_of_time)
        rescaled_offset ==
            convert_window_length_to_seconds(offset, unit_of_time)
    IN  IF ~lookback_window_length.ok
        THEN Raise(lookback_window_length.exc, lookback_window_length.msg,
                   <<ConvCall>>)
        ELSE IF ~rescaled_offset.ok
        THEN Raise(rescaled_offset.exc, rescaled_offset.msg,
                   <<ConvCall, ConvCall>>)
        ELSE [ok |-> TRUE,
              window |-> WindowSpec(
                  partition_col, order_col,
                  -(lookback_window_length.value + rescaled_offset.value),
                  IF include_current
                  THEN currentRow + rescaled_offset.value
                  ELSE currentRow - 1 + rescaled_offset.value),
              calls |-> <<ConvCall, ConvCall>> \o BuildCalls]

create_lookback_window(window_length, unit_of_time, order_col, partition_col, include_current, offset) ==
    LET lookback_window_length ==
            convert_window_length_to_seconds(window_length, unit_of_time)
        rescaled_offset ==
            convert_window_length_to_seconds(offset, unit_of_time)
    IN  IF ~lookback_window_length.ok
        THEN Raise(lookback_window_length.exc, lookback_window_length.msg,
                   <<ConvCall>>)
        ELSE IF ~rescaled_offset.ok
        THEN Raise(rescaled_offset.exc, rescaled_offset.msg,
                   <<ConvCall, ConvCall>>)
        ELSE LET start_bound ==
                     -(lookback_window_length.value + rescaled_offset.value)
                 end_bound ==
                     IF include_current
                     THEN currentRow - rescaled_offset.value
                     ELSE currentRow - 1 - rescaled_offset.value
             IN  [ok |-> TRUE,
                  window |-> WindowSpec(partition_col, order_col,
                                        start_bound, end_bound),
                  calls |-> <<ConvCall, ConvCall>> \o BuildCalls]

\* Variant: excluding the current row does not move the start bound.
create_lookahead_window_start_not_moved(window_length, unit_of_time, order_col, partition_col, include_current, offset) ==
    LET lookahead_window_length ==
            convert_window_length_to_seconds(window_length, unit_of_time)
        rescaled_offset ==
            convert_window_length_to_seconds(offset, unit_of_time)
    IN  IF ~lookahead_window_length.ok
        THEN Raise(lookahead_window_length.exc, lookahead_window_length.msg,
                   <<ConvCall>>)
        ELSE IF ~rescaled_offset.ok
        THEN Raise(rescaled_offset.exc, rescaled_offset.msg,
                   <<ConvCall, ConvCall>>)
        ELSE [ok |-> TRUE,
              window |-> WindowSpec(
                  partition_col, order_col,
                  currentRow + rescaled_offset.value,
                  lookahead_window_length.value + rescaled_offset.value),
              calls |-> <<ConvCall, ConvCall>> \o BuildCalls]

\* Variant: the offset is not converted (so not validated) before the window
\* is built; a negative offset or one in an unknown unit counts as no offset.
create_lookahead_window_offset_unchecked(window_length, unit_of_time, order_col, partition_col, include_current, offset) ==
    LET lookahead_window_length ==
            convert_window_length_to_seconds(window_length, unit_of_time)
        rescaled_offset ==
            convert_window_length_to_seconds(offset, unit_of_time)
        off == IF rescaled_offset.ok THEN rescaled_offset.value ELSE 0
    IN  IF ~lookahead_window_length.ok
        THEN Raise(lookahead_window_length.exc, lookahead_window_length.msg,
                   <<ConvCall>>)
        ELSE [ok |-> TRUE,
              window |-> WindowSpec(
                  partition_col, order_col,
                  IF include_current THEN currentRow + off
                  ELSE currentRow + 1 + off,
                  lookahead_window_length.value + off),
              calls |-> <<ConvCall>> \o BuildCalls]

\* Variant: excluding the current row shifts both bounds by one.
create_lookahead_window_both_shifted(window_length, unit_of_time, order_col, partition_col, include_current, offset) ==
    LET lookahead_window_length ==
            convert_window_length_to_seconds(window_length, unit_of_time)
        rescaled_offset ==
            convert_window_length_to_seconds(offset, unit_of_time)
        shift == IF include_current THEN 0 ELSE 1
    IN  IF ~lookahead_window_length.ok
        THEN Raise(lookahead_window_length.exc, lookahead_window_length.msg,
                   <<ConvCall>>)
        ELSE IF ~rescaled_offset.ok
        THEN Raise(rescaled_offset.exc, rescaled_offset.msg,
                   <<ConvCall, ConvCall>>)
        ELSE [ok |-> TRUE,
              window |-> WindowSpec(
                  partition_col, order_col,
                  currentRow + shift + rescaled_offset.value,
                  lookahead_window_length.value + rescaled_offset.value + shift),
              calls |-> <<ConvCall, ConvCall>> \o BuildCalls]

create_lookahead_window(window_length, unit_of_time, order_col, partition_col, include_current, offset) ==
    LET lookahead_window_length ==
            convert_window_length_to_seconds(window_length, unit_of_time)
        rescaled_offset ==
            convert_window_length_to_seconds(offset, unit_of_time)
    IN  IF ~lookahead_window_length.ok
        THEN Raise(lookahead_window_length.exc, lookahead_window_length.msg,
                   <<ConvCall>>)
        ELSE IF ~rescaled_offset.ok
        THEN Raise(rescaled_offset.exc, rescaled_offset.msg,
                   <<ConvCall, ConvCall>>)
        ELSE LET end_bound ==
                     lookahead_window_length.value + rescaled_offset.value
                 start_bound ==
                     IF include_current
                     THEN currentRow + rescaled_offset.value
                     ELSE currentRow + 1 + rescaled_offset.value
             IN  [ok |-> TRUE,
                  window |-> WindowSpec(partition_col, order_col,
                                        start_bound, end_bound),
                  calls |-> <<ConvCall, ConvCall>> \o BuildCalls]

\* Defaults of the optional parameters (used when the caller omits them).
lookback_include_current_default == TRUE
lookahead_include_current_default == FALSE
offset_default == 0

(***************************************************************************)
(* The combined window builder.  Its code is not among the files modelled  *)
(* above; it is modelled from the design's description: start bound        *)
(* -(secondsFor(lookbackLength) + secondsFor(lookbackOffset)), +1 when the *)
(* start is excluded; end bound secondsFor(lookaheadLength) +              *)
(* secondsFor(lookaheadOffset), -1 when the end is excluded; all four      *)
(* conversions validate before the window is built.                        *)
(***************************************************************************)
combinedWindow(lookbackLength, lookaheadLength, lookbackOffset, lookaheadOffset, unit, orderKey, partitionKey, includeStart, includeEnd) ==
    LET lb == convert_window_length_to_seconds(lookbackLength, unit)
        la == convert_window_length_to_seconds(lookaheadLength, unit)
        lbo == convert_window_length_to_seconds(lookbackOffset, unit)
        lao == convert_window_length_to_seconds(lookaheadOffset, unit)
    IN  IF ~lb.ok THEN Raise(lb.exc, lb.msg, <<ConvCall>>)
        ELSE IF ~la.ok THEN Raise(la.exc, la.msg, <<ConvCall, ConvCall>>)
        ELSE IF ~lbo.ok THEN Raise(lbo.exc, lbo.msg, <<ConvCall, ConvCall, ConvCall>>)
        ELSE IF ~lao.ok
        THEN Raise(lao.exc, lao.msg, <<ConvCall, ConvCall, ConvCall, ConvCall>>)
        ELSE LET start_bound == -(lb.value + lbo.value)
                                + (IF includeStart THEN 0 ELSE 1)
                 end_bound == la.value + lao.value
                              - (IF includeEnd THEN 0 ELSE 1)
             IN  [ok |-> TRUE,
                  window |-> WindowSpec(partitionKey, orderKey,
                                        start_bound, end_bound),
                  calls |-> <<ConvCall, ConvCall, ConvCall, ConvCall>>
                            \o BuildCalls]

(***************************************************************************)
(* spark_queries                                                           *)
(***************************************************************************)
\* A column argument is a name (python str) or a pyspark Column.
Str(name) == [py |-> "str", name |-> name]
Col(name) == [py |-> "Column", name |-> name]

\* `if isinstance(c, str): c = f.col(c)`
to_col(c) == IF c.py = "str" THEN Col(c.name) ELSE c

\* timestamp_col.cast(LongType)
cast_long(c) == [py |-> "Column", name |-> c.name, cast |-> "LongType"]

aggregation_strategies(col) ==
    [mean   |-> [fn |-> "mean", col |-> col],
     last   |-> [fn |-> "last", col |-> col, ignorenulls |-> TRUE],
     first  |-> [fn |-> "first", col |-> col, ignorenulls |-> TRUE],
     median |-> [fn |-> "percentile_approx", col |-> col, percentage |-> "0.5"]]

\* Parameters of create_lookback_window, and those without a default.
LookbackParams == {"window_length", "unit_of_time", "order_col", "partition_col",
                   "include_current", "offset"}
LookbackRequired == {"window_length", "unit_of_time", "order_col", "partition_col"}

\* A python call of create_lookback_window with the keyword arguments kw
\* (a record): the interpreter binds the keywords to the parameters, raising
\* TypeError for a keyword that names no parameter or a parameter left
\* without a value, and only then runs the body.
call_create_lookback_window(kw) ==
    IF DOMAIN kw \ LookbackParams # {}
    THEN Raise("TypeError", MsgUnexpectedKw, <<>>)
    ELSE IF LookbackRequired \ DOMAIN kw # {}
    THEN Raise("TypeError", MsgMissingArg, <<>>)
    ELSE create_lookback_window(
             kw.window_length, kw.unit_of_time, kw.order_col, kw.partition_col,
             IF "include_current" \in DOMAIN kw THEN kw.include_current
             ELSE lookback_include_current_default,
             IF "offset" \in DOMAIN kw THEN kw.offset ELSE offset_default)

AggCalls == <<"aggregation_strategies", "aggregation_strategies">>

\* Variant: the window is requested before the strategy is looked up.
lagged_delta_window_first(minuend_col, subtrahend_col, timestamp_col, partition_col, window_length, offset, unit_of_time, subtrahend_aggregation) ==
    LET minuend == to_col(minuend_col)
        subtrahend == to_col(subtrahend_col)
        timestamp == to_col(timestamp_col)
        strategies == aggregation_strategies(subtrahend)
        w == call_create_lookback_window(
                 [window_length |-> window_length,
                  offset |-> offset,
                  unit_of_time |-> unit_of_time,
                  timestamp_col |-> timestamp,
                  partition_col |-> partition_col])
    IN  IF ~w.ok
        THEN Raise(w.exc, w.msg, <<"create_lookback_window">> \o w.calls)
        ELSE IF subtrahend_aggregation \notin DOMAIN strategies
        THEN Raise("ValueError", MsgStrategy,
                   <<"create_lookback_window">> \o w.calls \o AggCalls)
        ELSE [ok |-> TRUE,
              expr |-> [fn |-> "-", left |-> minuend,
                        right |-> [fn |-> "over",
                                   agg |-> strategies[subtrahend_aggregation],
                                   window |-> w.window]],
              calls |-> <<"create_lookback_window">> \o w.calls \o AggCalls]

lagged_delta(minuend_col, subtrahend_col, timestamp_col, partition_col, window_length, offset, unit_of_time, subtrahend_aggregation) ==
    LET minuend == to_col(minuend_col)
        subtrahend == to_col(subtrahend_col)
        timestamp == to_col(timestamp_col)
        strategies == aggregation_strategies(subtrahend)
    IN  IF subtrahend_aggregation \notin DOMAIN strategies   \* .get(...) is None
        THEN Raise("ValueError", MsgStrategy, AggCalls)
        ELSE LET w == call_create_lookback_window(
                          [window_length |-> window_length,
                           offset |-> offset,
                           unit_of_time |-> unit_of_time,
                           timestamp_col |-> timestamp,
                           partition_col |-> partition_col])
             IN  IF ~w.ok
                 THEN Raise(w.exc, w.msg,
                            AggCalls \o <<"create_lookback_window">> \o w.calls)
                 ELSE [ok |-> TRUE,
                       expr |-> [fn |-> "-", left |-> minuend,
                                 right |-> [fn |-> "over",
                                            agg |-> strategies[subtrahend_aggregation],
                                            window |-> w.window]],
                       calls |-> AggCalls \o <<"create_lookback_window">>
                                 \o w.calls]

rate_of_change(col_name, timestamp_col, partition_col, window_length, offset, unit_of_time, subtrahend_aggregation) ==
    LET timestamp == to_col(timestamp_col)
        numerator == lagged_delta(col_name, col_name, timestamp, partition_col,
                                  window_length, offset, unit_of_time,
                                  subtrahend_aggregation)
        denominator == lagged_delta(cast_long(timestamp), cast_long(timestamp),
                                    timestamp, partition_col, window_length,
                                    offset, unit_of_time, "latest")
    IN  IF ~numerator.ok
        THEN Raise(numerator.exc, numerator.msg,
                   <<"lagged_delta">> \o numerator.calls)
        ELSE IF ~denominator.ok
        THEN Raise(denominator.exc, denominator.msg,
                   <<"lagged_delta">> \o numerator.calls
                   \o <<"cast", "cast", "lagged_delta">> \o denominator.calls)
        ELSE [ok |-> TRUE,
              expr |-> [fn |-> "/", left |-> numerator.expr,
                        right |-> denominator.expr],
              calls |-> <<"lagged_delta">> \o numerator.calls
                        \o <<"cast", "cast", "lagged_delta">> \o denominator.calls]

(***************************************************************************)
(* The calls.                                                              *)
(***************************************************************************)
Init ==
    /\ pc = "idle"
    /\ op = "none"
    /\ args = [none |-> TRUE]
    /\ result = [ok |-> TRUE]

\* Which of the optional keyword arguments the caller passes.
OptionalKw == SUBSET {"include_current", "offset"}

Convert ==
    /\ pc = "idle"
    /\ \E l \in Lengths, u \in Units :
        /\ op' = "convert_window_length_to_seconds"
        /\ args' = [window_length |-> l, unit_of_time |-> u]
        /\ result' = convert_window_length_to_seconds(l, u)
    /\ pc' = "returned"

Lookback ==
    /\ pc = "idle"
    /\ \E l \in Lengths, u \in Units, passed \in OptionalKw,
          ic \in BOOLEAN, o \in Offsets :
        LET include_current == IF "include_current" \in passed THEN ic
                               ELSE lookback_include_current_default
            offset == IF "offset" \in passed THEN o ELSE offset_default
        IN  /\ op' = "create_lookback_window"
            /\ args' = [window_length |-> l, unit_of_time |-> u,
                        order_col |-> "ts", partition_col |-> "id",
                        passed |-> passed,
                        include_current |-> include_current,
                        offset |-> offset]
            /\ result' = create_lookback_window(l, u, "ts", "id",
                                                include_current, offset)
    /\ pc' = "returned"

Lookahead ==
    /\ pc = "idle"
    /\ \E l \in Lengths, u \in Units, passed \in OptionalKw,
          ic \in BOOLEAN, o \in Offsets :
        LET include_current == IF "include_current" \in passed THEN ic
                               ELSE lookahead_include_current_default
            offset == IF "offset" \in passed THEN o ELSE offset_default
        IN  /\ op' = "create_lookahead_window"
            /\ args' = [window_length |-> l, unit_of_time |-> u,
                        order_col |-> "ts", partition_col |-> "id",
                        passed |-> passed,
                        include_current |-> include_current,
                        offset |-> offset]
            /\ result' = create_lookahead_window(l, u, "ts", "id",
                                                 include_current, offset)
    /\ pc' = "returned"

Combined ==
    /\ pc = "idle"
    /\ \E lb \in Lengths, la \in Lengths, lbo \in Offsets, lao \in Offsets,
          u \in Units, is \in BOOLEAN, ie \in BOOLEAN :
        /\ op' = "combinedWindow"
        /\ args' = [lookbackLength |-> lb, lookaheadLength |-> la,
                    lookbackOffset |-> lbo, lookaheadOffset |-> lao,
                    unit |-> u, includeStart |-> is, includeEnd |-> ie]
        /\ result' = combinedWindow(lb, la, lbo, lao, u, "ts", "id", is, ie)
    /\ pc' = "returned"

\* The column arguments a caller may pass: by name or as a Column.
ValueCols == {Str("value"), Col("value")}
TimeCols == {Str("ts"), Col("ts")}

LaggedDelta ==
    /\ pc = "idle"
    /\ \E c \in ValueCols, t \in TimeCols, l \in Lengths, o \in Offsets,
          u \in Units, s \in Strategies :
        /\ op' = "lagged_delta"
        /\ args' = [minuend_col |-> c, subtrahend_col |-> c,
                    timestamp_col |-> t, partition_col |-> "id",
                    window_length |-> l, offset |-> o, unit_of_time |-> u,
                    subtrahend_aggregation |-> s]
        /\ result' = lagged_delta(c, c, t, "id", l, o, u, s)
    /\ pc' = "returned"

RateOfChange ==
    /\ pc = "idle"
    /\ \E c \in ValueCols, t \in TimeCols, l \in Lengths, o \in Offsets,
          u \in Units, s \in Strategies :
        /\ op' = "rate_of_change"
        /\ args' = [col_name |-> c, timestamp_col |-> t, partition_col |-> "id",
                    window_length |-> l, offset |-> o, unit_of_time |-> u,
                    subtrahend_aggregation |-> s]
        /\ result' = rate_of_change(c, t, "id", l, o, u, s)
    /\ pc' = "returned"

Next ==
    \/ Convert
    \/ Lookback
    \/ Lookahead
    \/ Combined
    \/ LaggedDelta
    \/ RateOfChange

Spec == Init /\ [][Next]_vars

(***************************************************************************)
(* The design's vocabulary, stated independently of the code above.        *)
(***************************************************************************)
RecognizedUnits == {"minutes", "hours", "days", "weeks"}
RecognizedStrategies == {"mean", "last", "first", "median"}

secondsPerUnit(unit) ==
    CASE unit = "minutes" -> 60
      [] unit = "hours" -> 3600
      [] unit = "days" -> 86400
      [] unit = "weeks" -> 604800

secondsFor(length, unit) == length * secondsPerUnit(unit)

\* InvalidArgument: a negative length or an unknown aggregation strategy.
InvalidArgument(r) ==
    ~r.ok /\ r.exc = "ValueError" /\ r.msg \in {MsgNegative, MsgStrategy}

\* UnsupportedUnit: a unit outside the enumerated set.
UnsupportedUnit(r) == ~r.ok /\ r.exc = "ValueError" /\ r.msg = MsgUnit

Returned(f) == pc = "returned" /\ op = f

Called(r, f) == \E i \in 1..Len(r.calls) : r.calls[i] = f

WindowBuilt(r) == \E i \in 1..Len(BuildCalls) : Called(r, BuildCalls[i])

ValidWindowArgs(length, offset, unit) ==
    length >= 0 /\ offset >= 0 /\ unit \in RecognizedUnits

(***************************************************************************)
(* C1: for every strategy in {mean, last, first, median}, length >= 0,     *)
(* offset >= 0 and recognized unit, lagged_delta raises nothing and        *)
(* returns minuend - aggregated(subtrahend) over the lookback window with  *)
(* start = -(secondsFor(length) + secondsFor(offset)) and                  *)
(* end = -secondsFor(offset).                                              *)
(***************************************************************************)
C1_LaggedDeltaSucceeds ==
    ( /\ Returned("lagged_delta")
      /\ args.subtrahend_aggregation \in RecognizedStrategies
      /\ ValidWindowArgs(args.window_length, args.offset, args.unit_of_time) )
    => /\ result.ok
       /\ result.expr.fn = "-"
       /\ result.expr.left = to_col(args.minuend_col)
       /\ result.expr.right.window.start =
              -(secondsFor(args.window_length, args.unit_of_time)
                + secondsFor(args.offset, args.unit_of_time))
       /\ result.expr.right.window.end =
              -secondsFor(args.offset, args.unit_of_time)

(***************************************************************************)
(* C2: for every valid input (length >= 0, offset >= 0, recognized unit,   *)
(* strategy in {mean, last, first, median}) rate_of_change raises nothing  *)
(* and returns numerator / denominator, the denominator being built by     *)
(* lagged_delta with the internal strategy "latest".                       *)
(***************************************************************************)
C2_RateOfChangeSucceeds ==
    ( /\ Returned("rate_of_change")
      /\ args.subtrahend_aggregation \in RecognizedStrategies
      /\ ValidWindowArgs(args.window_length, args.offset, args.unit_of_time) )
    => /\ result.ok
       /\ result.expr.fn = "/"

(***************************************************************************)
(* C3: for every length >= 0, offset >= 0, recognized unit and either      *)
(* value of include_current, create_lookback_window returns a window with  *)
(* start = -(secondsFor(length) + secondsFor(offset)) and                  *)
(* end = 0 - secondsFor(offset) when the current row is included,          *)
(* -1 - secondsFor(offset) when it is not; include_current omitted means   *)
(* included.  (7, 0, days, included) gives (-604800, 0);                   *)
(* (7, 1, days, excluded) gives (-691200, -86401).                         *)
(***************************************************************************)
C3_LookbackBounds ==
    ( /\ Returned("create_lookback_window")
      /\ ValidWindowArgs(args.window_length, args.offset, args.unit_of_time) )
    => /\ result.ok
       /\ result.window.start =
              -(secondsFor(args.window_length, args.unit_of_time)
                + secondsFor(args.offset, args.unit_of_time))
       /\ result.window.end =
              (IF args.include_current THEN 0 ELSE -1)
              - secondsFor(args.offset, args.unit_of_time)
       /\ "include_current" \notin args.passed
              => result.window.end = 0 - secondsFor(args.offset, args.unit_of_time)
       /\ ( args.window_length = 7 /\ args.offset = 0
            /\ args.unit_of_time = "days" /\ args.include_current )
              => result.window.start = -604800 /\ result.window.end = 0
       /\ ( args.window_length = 7 /\ args.offset = 1
            /\ args.unit_of_time = "days" /\ ~args.include_current )
              => result.window.start = -691200 /\ result.window.end = -86401

C3_Witness ==
    /\ Returned("create_lookback_window")
    /\ args.window_length = 7 /\ args.offset = 1 /\ args.unit_of_time = "days"
    /\ "include_current" \in args.passed /\ ~args.include_current
    /\ result.ok
    /\ result.window.start = -691200 /\ result.window.end = -86401

(***************************************************************************)
(* C4: for every length >= 0, offset >= 0, recognized unit and either      *)
(* value of include_current, create_lookahead_window returns a window with *)
(* start = secondsFor(offset) + 1 when the current row is excluded,        *)
(* secondsFor(offset) when it is included, and                             *)
(* end = secondsFor(length) + secondsFor(offset); include_current omitted  *)
(* means excluded.  (3, 0, hours, excluded) gives (1, 10800).              *)
(***************************************************************************)
C4_LookaheadBounds ==
    ( /\ Returned("create_lookahead_window")
      /\ ValidWindowArgs(args.window_length, args.offset, args.unit_of_time) )
    => /\ result.ok
       /\ result.window.start =
              secondsFor(args.offset, args.unit_of_time)
              + (IF args.include_current THEN 0 ELSE 1)
       /\ result.window.end =
              secondsFor(args.window_length, args.unit_of_time)
              + secondsFor(args.offset, args.unit_of_time)
       /\ "include_current" \notin args.passed
              => result.window.start = secondsFor(args.offset, args.unit_of_time) + 1
       /\ ( args.window_length = 3 /\ args.offset = 0
            /\ args.unit_of_time = "hours" /\ ~args.include_current )
              => result.window.start = 1 /\ result.window.end = 10800

C4_Witness ==
    /\ Returned("create_lookahead_window")
    /\ args.window_length = 3 /\ args.offset = 0 /\ args.unit_of_time = "hours"
    /\ args.passed = {}
    /\ result.ok
    /\ result.window.start = 1 /\ result.window.end = 10800

(***************************************************************************)
(* C5: for every length >= 0 and unit in {minutes, hours, days, weeks},    *)
(* convert_window_length_to_seconds returns length * secondsPerUnit[unit]  *)
(* (60, 3600, 86400, 604800), and so 0 for length 0.                       *)
(***************************************************************************)
C5_SecondsFor ==
    ( /\ Returned("convert_window_length_to_seconds")
      /\ args.window_length >= 0
      /\ args.unit_of_time \in RecognizedUnits )
    => /\ result.ok
       /\ result.value = args.window_length * secondsPerUnit(args.unit_of_time)
       /\ args.window_length = 0 => result.value = 0

C5_Witness ==
    /\ Returned("convert_window_length_to_seconds")
    /\ args.window_length = 7 /\ args.unit_of_time = "days"
    /\ result.ok /\ result.value = 604800

(***************************************************************************)
(* C6: convert_window_length_to_seconds fails with InvalidArgument for     *)
(* every length < 0 whatever the unit (the negative-length test comes      *)
(* first), fails with UnsupportedUnit for every length >= 0 with an        *)
(* unrecognized unit, and returns no number in either case.                *)
(***************************************************************************)
C6_SecondsForErrors ==
    Returned("convert_window_length_to_seconds")
    => /\ args.window_length < 0
              => InvalidArgument(result) /\ result.msg = MsgNegative
       /\ ( args.window_length >= 0 /\ args.unit_of_time \notin RecognizedUnits )
              => UnsupportedUnit(result)

C6_Witness ==
    /\ Returned("convert_window_length_to_seconds")
    /\ args.window_length < 0 /\ args.unit_of_time = "fortnights"
    /\ InvalidArgument(result)

(***************************************************************************)
(* C7: a call of create_lookback_window or create_lookahead_window with a  *)
(* negative length, a negative offset or an unrecognized unit fails with   *)
(* the error the conversion raised (the length's if it fails, else the     *)
(* offset's), and no window (partitionBy/orderBy/rangeBetween) is built;   *)
(* a window is returned only when both conversions succeeded.              *)
(***************************************************************************)
C7_ValidationBeforeWindow ==
    ( Returned("create_lookback_window") \/ Returned("create_lookahead_window") )
    => LET l == args.window_length
           o == args.offset
           u == args.unit_of_time
       IN  /\ ~ValidWindowArgs(l, o, u)
                  => /\ ~result.ok
                     /\ ~WindowBuilt(result)
                     /\ IF l < 0 THEN InvalidArgument(result)
                        ELSE IF u \notin RecognizedUnits THEN UnsupportedUnit(result)
                        ELSE InvalidArgument(result)
           /\ result.ok
                  => /\ ValidWindowArgs(l, o, u)
                     /\ result.calls = <<ConvCall, ConvCall>> \o BuildCalls

C7_Witness ==
    /\ Returned("create_lookahead_window")
    /\ args.window_length >= 0 /\ args.unit_of_time \in RecognizedUnits
    /\ args.offset < 0
    /\ InvalidArgument(result)
    /\ result.calls = <<ConvCall, ConvCall>>

(***************************************************************************)
(* C8: for every subtrahend_aggregation outside {mean, last, first,        *)
(* median}, lagged_delta fails with InvalidArgument (the strategy error)   *)
(* before create_lookback_window is called, whatever the other arguments.  *)
(***************************************************************************)
C8_StrategyCheckedFirst ==
    ( /\ Returned("lagged_delta")
      /\ args.subtrahend_aggregation \notin RecognizedStrategies )
    => /\ InvalidArgument(result)
       /\ result.msg = MsgStrategy
       /\ ~Called(result, "create_lookback_window")

C8_Witness ==
    /\ Returned("lagged_delta")
    /\ args.subtrahend_aggregation = "nonsense"
    /\ args.window_length < 0 /\ args.unit_of_time = "fortnights"
    /\ result.msg = MsgStrategy
    /\ result.calls = AggCalls

(***************************************************************************)
(* C9.  The bounds of a combinedWindow call, for valid arguments.          *)
(***************************************************************************)
CombinedArgs ==
    [lb : 0..MaxLen, la : 0..MaxLen, lbo : 0..MaxOffset, lao : 0..MaxOffset,
     u : RecognizedUnits, is : BOOLEAN, ie : BOOLEAN]

CombinedBounds(c) ==
    LET w == combinedWindow(c.lb, c.la, c.lbo, c.lao, c.u, "ts", "id", c.is, c.ie).window
    IN  <<w.start, w.end>>

\* Some combinedWindow call with lookahead length 0 has the result's bounds.
LookbackExpressible ==
    \E c \in CombinedArgs :
        c.la = 0 /\ CombinedBounds(c) = <<result.window.start, result.window.end>>

\* Some combinedWindow call with lookback length 0 has the result's bounds.
LookaheadExpressible ==
    \E c \in CombinedArgs :
        c.lb = 0 /\ CombinedBounds(c) = <<result.window.start, result.window.end>>

SevenDayExample ==
    CombinedBounds([lb |-> 7, la |-> 0, lbo |-> 0, lao |-> 0, u |-> "days",
                    is |-> TRUE, ie |-> TRUE])
    = LET w == create_lookback_window(7, "days", "ts", "id", TRUE, 0).window
      IN  <<w.start, w.end>>

(***************************************************************************)
(* C9 as stated: combinedWindow(7 days, 0, 0, 0, TRUE, TRUE) has the       *)
(* bounds of create_lookback_window(7, days, included, offset 0), and      *)
(* every create_lookback_window and create_lookahead_window result equals  *)
(* the bounds of some combinedWindow call with the opposite length zero.   *)
(***************************************************************************)
C9_Original ==
    /\ SevenDayExample
    /\ ( Returned("create_lookback_window") /\ result.ok ) => LookbackExpressible
    /\ ( Returned("create_lookahead_window") /\ result.ok ) => LookaheadExpressible

(***************************************************************************)
(* C9 amended: combinedWindow(7 days, 0, 0, 0, TRUE, TRUE) has the bounds  *)
(* of create_lookback_window(7, days, included, offset 0), and every       *)
(* create_lookback_window and create_lookahead_window result with offset 0 *)
(* equals the bounds of some combinedWindow call with the opposite length  *)
(* zero.                                                                   *)
(***************************************************************************)
C9_SubsumesAtOffsetZero ==
    /\ SevenDayExample
    /\ ( Returned("create_lookback_window") /\ result.ok /\ args.offset = 0 )
           => LookbackExpressible
    /\ ( Returned("create_lookahead_window") /\ result.ok /\ args.offset = 0 )
           => LookaheadExpressible

C9_Witness ==
    /\ Returned("create_lookahead_window")
    /\ result.ok /\ args.offset = 0 /\ ~args.include_current
    /\ args.window_length = 3 /\ args.unit_of_time = "hours"
    /\ LookaheadExpressible

(***************************************************************************)
(* C10: for valid input the bounds returned by create_lookback_window and  *)
(* create_lookahead_window satisfy start <= end, except exactly when       *)
(* length = 0 and the current row is excluded, where start = end + 1;      *)
(* the lookback end bound is <= 0 and the lookahead start bound is >= 0.   *)
(***************************************************************************)
C10_WellFormed ==
    ( /\ Returned("create_lookback_window") \/ Returned("create_lookahead_window")
      /\ ValidWindowArgs(args.window_length, args.offset, args.unit_of_time) )
    => LET w == result.window
           inverted == args.window_length = 0 /\ ~args.include_current
       IN  /\ result.ok
           /\ (w.start <= w.end) <=> ~inverted
           /\ inverted => w.start = w.end + 1
           /\ op = "create_lookback_window" => w.end <= 0
           /\ op = "create_lookahead_window" => w.start >= 0

C10_Witness ==
    /\ Returned("create_lookback_window")
    /\ result.ok
    /\ args.window_length = 0 /\ ~args.include_current /\ args.offset = 1
    /\ result.window.start = result.window.end + 1

====
